---------------------------- MODULE Spec2Model ----------------------------
(***************************************************************************)
(* Berlin event map: the ingestion pipelines (Resident Advisor paginated   *)
(* fetcher, visit Berlin, Gratis in Berlin, tip Berlin) and the merge      *)
(* stage, modelled as state machines.                                      *)
(*                                                                         *)
(* Text is a sequence of one-character strings, so that formatting,        *)
(* splitting and trimming are computed as the code computes them.  A       *)
(* Python value that may be None is a record [none, s].                    *)
(***************************************************************************)
EXTENDS Integers, Sequences, FiniteSets, TLC

VARIABLES
    prog,          \* which script this run executes
    geoCalls,      \* external geocoding service: query -> number of calls received
    geoErrs,       \* queries on which the external service raised or timed out
    geoTrace,      \* the external calls of the latest resolver invocation, in order
    geoResult,     \* what the latest resolver invocation returned
    geoWait,       \* time that has surely passed since the latest external call
    geoMinGap,     \* the shortest time that surely passed between two external calls
    raPc,          \* RA_event_fetcher.main: position
    raTemplate,    \* whether graphql_query_template.json exists
    raPage,        \* fetch_all_events: page_number
    raAllEvents,   \* fetch_all_events: all_events
    raResponses,   \* the responses the API gave, in request order, each with the
                   \* page number get_events put in the payload
    raPending,     \* save_events_to_csv: unique venues not yet iterated
    raCache,       \* EventFetcher._venues_cache
    raCsv,         \* rows written to the output file
    raSaved,       \* whether the output file was written
    raExit,        \* exit status of main (-1 while running)
    rvLog,         \* _geocode_venue called directly: the calls and what they returned
    vbPc,          \* run_visitberlin_scraper: position
    vbEvents,      \* the events scrape_events returned (the DataFrame's rows)
    vbCoords,      \* the lat/lon cells set so far, row by row
    vbCsv,         \* rows written to visitberlin_events.csv
    vbSaved,       \* whether visitberlin_events.csv was written
    vbExit,        \* exit status of the script (-1 while running)
    gbPc,          \* run_gratis_berlin_scraper: position
    gbUrls,        \* the (title, url) pairs collected from the listing page
    gbNext,        \* the pool's queue: index of the next fetch a worker will take
    gbRunning,     \* indices of the detail fetches in progress
    gbOutcome,     \* finished detail fetches: index -> how the GET ended
    gbResult,      \* finished detail fetches: index -> EventDetail
    gbYielded,     \* indices as_completed has yielded
    gbEvents,      \* the events collected from the finished fetches
    gbCoords,      \* the lat/lon cells set so far, row by row
    gbCsv,         \* rows written to gratis_berlin_events.csv
    gbSaved,       \* whether gratis_berlin_events.csv was written
    gbExit,        \* exit status of the script (-1 while running)
    tbPc,          \* run_tip_berlin_scraper: position
    tbPlaywright,  \* the sync_playwright() context: "off", "running" or "stopped"
    tbBrowser,     \* the launched browser: "none", "open" or "closed"
    tbLaunches,    \* how often p.chromium.launch was called
    tbOverlays,    \* which overlays a handler clicked away, and for the page that is
                   \* open the selector attempts of the handler that ran last
    tbEvents,      \* the events scrape_events returned (the DataFrame's rows)
    tbCoords,      \* the lat/lon cells set so far, row by row
    tbCsv,         \* rows written to tip_berlin_events.csv
    tbSaved,       \* whether tip_berlin_events.csv was written
    tbExit,        \* exit status of the script (-1 while running)
    mgPc,          \* load_csv_sources: position
    mgFolder,      \* the run folder: file name -> artifact
    mgRaRun,       \* the RA_*_events.csv files of the run folder
    mgRaCwd,       \* the RA_*_events.csv files of the current directory
    mgIdx,         \* index in CSV_SOURCES of the source the loop is at
    mgPicked,      \* the artifact each source was read from
    mgFrames,      \* all_events
    mgStats,       \* source_stats
    mgTable,       \* the combined DataFrame returned
    mnSuccessful,  \* main.run_scrapers: successful
    mnFailed,      \* main.run_scrapers: failed
    mnPc,          \* main.main: "idle", "scrapers", "done"
    mnIdx,         \* main.run_scrapers: the position of the loop in SCRAPERS
    mnRan,         \* the scrapers run_script was called for, in call order
    mnFolder,      \* the files of the run folder main created
    mnCombined     \* what became of the combine stage

geoVars == <<geoCalls, geoErrs, geoTrace, geoResult, geoWait, geoMinGap>>
raVars == <<raPc, raTemplate, raPage, raAllEvents, raResponses, raPending,
            raCache, raCsv, raSaved, raExit>>
vbVars == <<vbPc, vbEvents, vbCoords, vbCsv, vbSaved, vbExit>>
gbVars == <<gbPc, gbUrls, gbNext, gbRunning, gbOutcome, gbResult, gbYielded, gbEvents,
            gbCoords, gbCsv, gbSaved, gbExit>>
tbVars == <<tbPc, tbPlaywright, tbBrowser, tbLaunches, tbOverlays, tbEvents, tbCoords, tbCsv,
            tbSaved, tbExit>>
mgVars == <<mgPc, mgFolder, mgRaRun, mgRaCwd, mgIdx, mgPicked, mgFrames, mgStats,
            mgTable>>
mnVars == <<mnSuccessful, mnFailed, mnPc, mnIdx, mnRan, mnFolder, mnCombined>>
vars == <<prog, geoVars, raVars, rvLog, vbVars, gbVars, tbVars, mgVars, mnVars>>
\* what each script leaves alone
notRA == <<prog, rvLog, vbVars, gbVars, tbVars, mgVars, mnVars>>
notVB == <<prog, rvLog, raVars, gbVars, tbVars, mgVars, mnVars>>
notGB == <<prog, rvLog, raVars, vbVars, tbVars, mgVars, mnVars>>
notTB == <<prog, rvLog, raVars, vbVars, gbVars, mgVars, mnVars>>
notMG == <<prog, geoVars, rvLog, raVars, vbVars, gbVars, tbVars, mnVars>>

-----------------------------------------------------------------------------
(* Bounds *)

MaxPages == 2
MaxResolves == 3
MaxItems == 4

-----------------------------------------------------------------------------
(* Python values and text *)

PyNone == [none |-> TRUE, s |-> <<>>]
PyStr(s) == [none |-> FALSE, s |-> s]
Truthy(v) == ~v.none /\ v.s # <<>>
\* f"{v}"
Format(v) == IF v.none THEN <<"N", "o", "n", "e">> ELSE v.s
\* v or ''
OrEmpty(v) == IF Truthy(v) THEN v.s ELSE <<>>

\* the index of the first c in s, 0 when there is none
IndexOf(s, c) ==
    IF \E i \in 1..Len(s) : s[i] = c
    THEN CHOOSE i \in 1..Len(s) : s[i] = c /\ \A j \in 1..(i - 1) : s[j] # c
    ELSE 0
\* c in s
Contains(s, c) == IndexOf(s, c) > 0
\* s.split(c)[0]
Split0(s, c) == IF Contains(s, c) THEN SubSeq(s, 1, IndexOf(s, c) - 1) ELSE s
\* s.strip()
RECURSIVE Strip(_)
Strip(s) ==
    IF s = <<>> THEN s
    ELSE IF Head(s) = " " THEN Strip(Tail(s))
    ELSE IF s[Len(s)] = " " THEN Strip(SubSeq(s, 1, Len(s) - 1))
    ELSE s
\* s.split(c)[0].strip()
MainPart(s, c) == Strip(Split0(s, c))
Digit(i) == <<"1", "2", "3", "4", "5", "6", "7", "8", "9">>[i]

-----------------------------------------------------------------------------
(* The external geocoding service (Nominatim) *)

Locations == {[lat |-> "52.50", lon |-> "13.40"], [lat |-> "52.52", lon |-> "13.45"]}
NoneResult == [lat |-> "None", lon |-> "None"]
GeoOutcomes ==
    {[kind |-> "found", loc |-> l] : l \in Locations}
        \cup {[kind |-> "none", loc |-> NoneResult], [kind |-> "error", loc |-> NoneResult]}

\* the service's books after one more call with query q
CountCall(calls, q) ==
    [x \in DOMAIN calls \cup {q} |-> IF x = q
                                      THEN (IF q \in DOMAIN calls THEN calls[q] ELSE 0) + 1
                                      ELSE calls[x]]
\* the service's books after the calls of `trace`
RECURSIVE CountCalls(_, _)
CountCalls(calls, trace) ==
    IF trace = <<>> THEN calls
    ELSE CountCalls(CountCall(calls, Head(trace).query), Tail(trace))
ErrQueries(trace) == {trace[i].query : i \in {j \in 1..Len(trace) : trace[j].kind = "error"}}
\* one call to the service: the query sent and the answer got
Call(query, o) == [query |-> query, kind |-> o.kind, loc |-> o.loc]
\* the service's books after a resolver made the calls of `trace` and returned result
GeoAfter(trace, result) ==
    /\ geoCalls' = CountCalls(geoCalls, trace)
    /\ geoErrs' = geoErrs \cup ErrQueries(trace)
    /\ geoTrace' = trace
    /\ geoResult' = result
CallsTo(q) == IF q \in DOMAIN geoCalls THEN geoCalls[q] ELSE 0

\* GEOCODE_DELAY_SECONDS = 1.5, in tenths of a second; times are counted up to it
GEOCODE_DELAY_SECONDS == 15
Least(a, b) == IF a < b THEN a ELSE b
\* the time that surely passed before the i-th of the calls a resolver makes in a
\* row: a RateLimiter waits until the delay has passed since the call before, a
\* bare geolocator.geocode starts at once
GapBefore(i, limited) ==
    IF limited THEN GEOCODE_DELAY_SECONDS
    ELSE IF i = 1 THEN geoWait ELSE 0
\* the clock after a resolver made n calls in a row and its caller then slept
Throttle(n, limited, slept) ==
    /\ geoMinGap' = IF \E i \in 1..n : GapBefore(i, limited) < geoMinGap
                    THEN CHOOSE g \in {GapBefore(i, limited) : i \in 1..n} :
                            \A i \in 1..n : g <= GapBefore(i, limited)
                    ELSE geoMinGap
    /\ geoWait' = Least(GEOCODE_DELAY_SECONDS, (IF n = 0 THEN geoWait ELSE 0) + slept)
RECURSIVE SumCalls(_, _)
SumCalls(calls, S) ==
    IF S = {} THEN 0
    ELSE LET q == CHOOSE x \in S : TRUE IN calls[q] + SumCalls(calls, S \ {q})
TotalCalls == SumCalls(geoCalls, DOMAIN geoCalls)
\* the index of the first answer that ends a chain of attempts, 0 when all find nothing
FirstAnswer(os) ==
    IF \E i \in DOMAIN os : os[i].kind # "none"
    THEN CHOOSE i \in DOMAIN os : os[i].kind # "none"
                                   /\ \A j \in 1..(i - 1) : os[j].kind = "none"
    ELSE 0

\* df.dropna(subset=["lat", "lon"]): the indices of the rows kept
RECURSIVE KeptRows(_, _)
KeptRows(coords, i) ==
    IF i > Len(coords) THEN <<>>
    ELSE (IF coords[i].lat # "None" /\ coords[i].lon # "None" THEN <<i>> ELSE <<>>)
            \o KeptRows(coords, i + 1)
\* the rows of df_mapped
MappedRows(events, coords) ==
    LET kept == KeptRows(coords, 1)
    IN [k \in 1..Len(kept) |->
           [title |-> events[kept[k]].title, address |-> events[kept[k]].address,
            lat |-> coords[kept[k]].lat, lon |-> coords[kept[k]].lon]]

-----------------------------------------------------------------------------
(* Resident Advisor: the data the API serves *)

\* the venue object of a listing; address is a string, null, or not in the object
Venue(name, kind, addr) == [name |-> name, addrKind |-> kind, addr |-> addr]
ClubA == Venue(<<"A">>, "str", <<"x">>)
ClubB == Venue(<<"B">>, "absent", <<>>)
ClubNull == Venue(<<"B">>, "null", <<>>)
ClubBarName == Venue(<<"A", "|">>, "str", <<"B">>)
ClubBarAddr == Venue(<<"A">>, "str", <<"|", "B">>)
Venues == {ClubA, ClubB, ClubNull, ClubBarName, ClubBarAddr}

RaEvent(title, venue) == [title |-> title, venue |-> venue]
PageContents ==
    { <<RaEvent(<<"T">>, ClubA), RaEvent(<<"U">>, ClubNull), RaEvent(<<"V">>, ClubA)>>,
      <<RaEvent(<<"T">>, ClubBarName), RaEvent(<<>>, ClubBarAddr)>> }

\* what one POST to the API can come back with
FailureKinds == {"timeout", "http_error", "bad_json", "no_data", "no_listings"}
Responses ==
    {[kind |-> "records", events |-> p] : p \in PageContents}
        \cup {[kind |-> k, events |-> <<>>] : k \in {"empty"} \cup FailureKinds}

-----------------------------------------------------------------------------
(* Resident Advisor: EventFetcher *)

\* event["event"]["venue"].get("address", "")
VenueAddress(venue) ==
    CASE venue.addrKind = "absent" -> PyStr(<<>>)
      [] venue.addrKind = "null" -> PyNone
      [] OTHER -> PyStr(venue.addr)

\* the (name, address) tuple of one event, as unique_venues holds it
VenuePair(ev) == [name |-> ev.venue.name, address |-> VenueAddress(ev.venue)]
UniqueVenues(events) == {VenuePair(events[i]) : i \in 1..Len(events)}

\* _geocode_venue: cache_key
CacheKey(name, address) == name \o <<"|">> \o OrEmpty(address)
\* save_events_to_csv: the key it tests and reads the cache with
SaveKey(name, address) == name \o <<"|">> \o Format(address)
\* _geocode_venue: query
GeoQuery(name, address) ==
    IF Truthy(address)
    THEN name \o <<", ">> \o address.s \o <<", Berlin, Germany">>
    ELSE name \o <<", Berlin, Germany">>

\* get_events: what it returns for a response, or that it raised
GetEvents(resp) ==
    CASE resp.kind \in {"timeout", "http_error", "bad_json", "no_data"} ->
            [raised |-> FALSE, events |-> <<>>]
      [] resp.kind = "no_listings" -> [raised |-> TRUE, events |-> <<>>]
      [] OTHER -> [raised |-> FALSE, events |-> resp.events]

\* a faulty loop step: it leaves a page number out
NextPageSkips(page) == page + 2
\* fetch_all_events: `page_number += 1`
NextPage(page) == page + 1

\* a faulty exit test: `if events is None: break`, which no returned list satisfies
LoopEndsOnNone(events) == FALSE
\* fetch_all_events: `if not events: break`
LoopEnds(events) == events = <<>>

\* _geocode_venue(name, address) on cache `cache`, the service answering `o` if asked:
\* the cache after it, what it returns, the calls made, and whether it raised
GeocodeVenue(cache, name, address, o) ==
    LET key == CacheKey(name, address)
        result == IF o.kind = "found" THEN o.loc ELSE NoneResult
    IN IF key \in DOMAIN cache
       THEN [cache |-> cache, result |-> cache[key], trace |-> <<>>, raised |-> FALSE]
       ELSE [cache |-> [k \in DOMAIN cache \cup {key} |->
                            IF k = key THEN result ELSE cache[k]],
             result |-> result, trace |-> <<Call(GeoQuery(name, address), o)>>,
             raised |-> FALSE]

\* save_events_to_csv: one row
Cell(x) == IF x = "None" THEN "" ELSE x
RaRow(cache, ev) ==
    LET p == VenuePair(ev)
        key == SaveKey(p.name, p.address)
        res == IF key \in DOMAIN cache THEN cache[key] ELSE NoneResult
    IN [title |-> ev.title, venue |-> p.name, address |-> p.address,
        lat |-> Cell(res.lat), lon |-> Cell(res.lon)]
RaRows(cache, events) == [i \in 1..Len(events) |-> RaRow(cache, events[i])]

EmptyCache == [k \in {} |-> NoneResult]

\* a faulty _generate_payload: without the template file it builds a default payload
GeneratePayloadDefault(templateExists) == [raised |-> FALSE]
\* _generate_payload: QUERY_TEMPLATE_PATH.open raises FileNotFoundError
GeneratePayload(templateExists) == [raised |-> ~templateExists]

\* EventFetcher.__init__ in main's try block
RaConstruct ==
    /\ prog = "ra" /\ raPc = "init"
    /\ IF ~GeneratePayload(raTemplate).raised
       THEN raPc' = "fetch" /\ raExit' = raExit
       ELSE raPc' = "done" /\ raExit' = 1
    /\ UNCHANGED <<notRA, geoVars, raTemplate, raPage, raAllEvents, raResponses,
                   raPending, raCache, raCsv, raSaved>>

\* fetch_all_events: one turn of the loop, and what main does when it ends
RaFetchPage ==
    /\ prog = "ra" /\ raPc = "fetch"
    /\ \E resp \in Responses :
        /\ resp.kind = "records" => raPage <= MaxPages
        /\ raResponses' = Append(raResponses, [page |-> raPage] @@ resp)
        /\ LET r == GetEvents(resp)
           IN IF r.raised
              THEN /\ raPc' = "done" /\ raExit' = 1
                   /\ UNCHANGED <<raPage, raAllEvents, raPending>>
              ELSE IF LoopEnds(r.events)
              THEN IF raAllEvents = <<>>
                   THEN /\ raPc' = "done" /\ raExit' = 0
                        /\ UNCHANGED <<raPage, raAllEvents, raPending>>
                   ELSE /\ raPc' = "geocode"
                        /\ raPending' = UniqueVenues(raAllEvents)
                        /\ UNCHANGED <<raPage, raAllEvents, raExit>>
              ELSE /\ raAllEvents' = raAllEvents \o r.events
                   /\ raPage' = NextPage(raPage)
                   /\ UNCHANGED <<raPc, raPending, raExit>>
    /\ UNCHANGED <<notRA, geoVars, raTemplate, raCache, raCsv, raSaved>>

\* save_events_to_csv: one turn of the loop over unique_venues
RaGeocodeVenue ==
    /\ prog = "ra" /\ raPc = "geocode"
    /\ \E p \in raPending, o \in GeoOutcomes :
        /\ raPending' = raPending \ {p}
        /\ IF SaveKey(p.name, p.address) \notin DOMAIN raCache
           THEN LET r == GeocodeVenue(raCache, p.name, p.address, o)
                IN /\ raCache' = r.cache
                   /\ GeoAfter(r.trace, r.result)
                   /\ Throttle(Len(r.trace), TRUE, 0)
                   /\ IF r.raised
                      THEN raPc' = "done" /\ raExit' = 1
                      ELSE UNCHANGED <<raPc, raExit>>
           ELSE UNCHANGED <<raCache, geoVars, raPc, raExit>>
    /\ UNCHANGED <<notRA, raTemplate, raPage, raAllEvents, raResponses, raCsv, raSaved>>

\* save_events_to_csv: the file is written, main returns 0
RaWriteCsv ==
    /\ prog = "ra" /\ raPc = "geocode" /\ raPending = {}
    /\ raCsv' = RaRows(raCache, raAllEvents)
    /\ raSaved' = TRUE
    /\ raExit' = 0
    /\ raPc' = "done"
    /\ UNCHANGED <<notRA, geoVars, raTemplate, raPage, raAllEvents, raResponses,
                   raPending, raCache>>

\* _geocode_venue called on any venue, any number of times, on one EventFetcher
RvResolve ==
    /\ prog = "resolve" /\ Len(rvLog) < MaxResolves
    /\ \E v \in Venues, o \in GeoOutcomes :
        LET addr == VenueAddress(v)
            r == GeocodeVenue(raCache, v.name, addr, o)
        IN /\ ~r.raised
           /\ raCache' = r.cache
           /\ GeoAfter(r.trace, r.result)
           /\ Throttle(Len(r.trace), TRUE, 0)
           /\ rvLog' = Append(rvLog, [name |-> v.name, address |-> addr,
                                      result |-> r.result, external |-> r.trace # <<>>])
    /\ UNCHANGED <<prog, vbVars, gbVars, tbVars, mgVars, mnVars, raPc, raTemplate, raPage, raAllEvents,
                   raResponses, raPending, raCsv, raSaved, raExit>>

-----------------------------------------------------------------------------
(* visit Berlin *)

NA == <<"N", "/", "A">>
BerlinGermany == <<", Berlin, Germany">>
\* "ndash" stands for the en dash
DashSeparators == <<"-", "ndash", ":">>

\* an <article> of the listing page: its heading and its location, when it has them
Article(hasTitle, title, hasLoc, loc) ==
    [hasTitle |-> hasTitle, title |-> title, hasLoc |-> hasLoc, loc |-> loc]
AddrCellar == <<"H", " ", "-", " ", "K">>
AddrTwoSeps == <<"H", ":", "K", "-", "L">>
AddrSlash == <<"H", "/", "K">>
AddrPlain == <<"H">>
AddrNDash == <<"H", "ndash", "K">>
VbListings ==
    { <<>>,
      <<Article(TRUE, <<"T">>, TRUE, AddrCellar), Article(TRUE, <<"U">>, TRUE, AddrCellar)>>,
      <<Article(FALSE, <<>>, TRUE, AddrTwoSeps)>>,
      <<Article(TRUE, <<>>, TRUE, AddrSlash), Article(TRUE, <<"T">>, FALSE, <<>>)>>,
      <<Article(TRUE, <<"T">>, TRUE, AddrPlain), Article(TRUE, <<"U">>, TRUE, AddrNDash)>> }

\* _parse_article
ParseArticle(a) ==
    [title |-> IF a.hasTitle THEN a.title ELSE NA,
     address |-> IF a.hasLoc THEN a.loc ELSE NA]

\* geocode_address: the queries it sends while each one finds nothing, in order
RECURSIVE DashAttempts(_, _)
DashAttempts(address, seps) ==
    IF seps = <<>> THEN <<>>
    ELSE (IF Contains(address, Head(seps)) /\ MainPart(address, Head(seps)) # address
          THEN <<MainPart(address, Head(seps)) \o BerlinGermany>>
          ELSE <<>>) \o DashAttempts(address, Tail(seps))
VbAttempts(address) ==
    <<address \o BerlinGermany>>
        \o DashAttempts(address, DashSeparators)
        \o (IF Contains(address, "/") THEN <<MainPart(address, "/") \o BerlinGermany>>
            ELSE <<>>)

\* a faulty geocode_address: it gives up after the full-string query
VbGeocodeFullOnly(address, os) ==
    [result |-> IF os[1].kind = "found" THEN os[1].loc ELSE NoneResult,
     trace |-> <<Call(address \o BerlinGermany, os[1])>>,
     raised |-> FALSE]

\* VisitBerlinScraper.geocode_address(address), the service answering os[i] to the
\* i-th query: the result, and the calls made
VbGeocodeAddress(address, os) ==
    LET att == VbAttempts(address)
        stop == FirstAnswer(os)
        n == IF stop = 0 THEN Len(att) ELSE stop
    IN [result |-> IF stop # 0 /\ os[stop].kind = "found" THEN os[stop].loc
                   ELSE NoneResult,
        trace |-> [i \in 1..n |-> Call(att[i], os[i])],
        raised |-> FALSE]

\* scrape_events, and run_visitberlin_scraper up to the geocoding loop
VbScrape ==
    /\ prog = "visit" /\ vbPc = "scrape"
    /\ \E ok \in BOOLEAN, listing \in VbListings :
        LET events == IF ok THEN [i \in 1..Len(listing) |-> ParseArticle(listing[i])]
                      ELSE <<>>
        IN /\ vbEvents' = events
           /\ IF events = <<>>
              THEN vbPc' = "done" /\ vbExit' = 0
              ELSE vbPc' = "geocode" /\ vbExit' = vbExit
    /\ UNCHANGED <<notVB, geoVars, vbCoords, vbCsv, vbSaved>>

\* run_visitberlin_scraper: one turn of the geocoding loop
VbGeocodeRow ==
    /\ prog = "visit" /\ vbPc = "geocode" /\ Len(vbCoords) < Len(vbEvents)
    /\ LET address == vbEvents[Len(vbCoords) + 1].address
       IN \E os \in [1..Len(VbAttempts(address)) -> GeoOutcomes] :
            LET r == VbGeocodeAddress(address, os)
            IN /\ GeoAfter(r.trace, r.result)
               /\ Throttle(Len(r.trace), FALSE, GEOCODE_DELAY_SECONDS)
               /\ IF r.raised
                  THEN vbPc' = "done" /\ vbExit' = 1 /\ UNCHANGED vbCoords
                  ELSE vbCoords' = Append(vbCoords, r.result) /\ UNCHANGED <<vbPc, vbExit>>
    /\ UNCHANGED <<notVB, vbEvents, vbCsv, vbSaved>>

\* run_visitberlin_scraper: dropna, to_csv, return
VbSave ==
    /\ prog = "visit" /\ vbPc = "geocode" /\ Len(vbCoords) = Len(vbEvents)
    /\ vbCsv' = MappedRows(vbEvents, vbCoords)
    /\ vbSaved' = TRUE
    /\ vbExit' = 0
    /\ vbPc' = "done"
    /\ UNCHANGED <<notVB, geoVars, vbEvents, vbCoords>>

-----------------------------------------------------------------------------
(* Gratis in Berlin *)

MAX_WORKERS == 10

\* the i-th <h2> of the listing page: its link, when it has one, and the link's text
GbItem(i) ==
    [hasLink |-> i # 3,
     title |-> IF i = 2 THEN <<>> ELSE <<"T", Digit(i)>>,
     href |-> <<"/", Digit(i)>>]
GbListingOf(n) == [i \in 1..n |-> GbItem(i)]
\* the text of the mapTipp div of the detail page at url
GbMapText(url) ==
    CASE url[Len(url)] = "1" -> <<"S", " ", "-", " ", "x">>
      [] url[Len(url)] = "2" -> <<"R", "-", "y">>
      [] OTHER -> <<"S", " ", "-", "z">>
\* the events of a crowded listing page: one more than the pool has workers
PoolItems == MAX_WORKERS + 1
\* a crowded listing page: n <h2> with links /c1 .. /cn; the detail pages behind
\* them are on a server that does not answer
GbCrowdedItem(i) ==
    [hasLink |-> TRUE,
     title |-> <<"C">>,
     href |-> <<"/", "c">> \o (IF i < 10 THEN <<Digit(i)>>
                               ELSE <<Digit(i \div 10)>>
                                    \o (IF i % 10 = 0 THEN <<"0">> ELSE <<Digit(i % 10)>>))]
GbCrowdedListing(n) == [i \in 1..n |-> GbCrowdedItem(i)]
\* how the GET of the detail page at url can end: an exception, or a body, which
\* may have no mapTipp div (an error page) or one whose text starts with "-"
GbFetchOutcomes(url) ==
    IF url[3] = "c"
    THEN {[kind |-> "timeout", marker |-> FALSE, text |-> <<>>]}
    ELSE {[kind |-> k, marker |-> FALSE, text |-> <<>>] : k \in {"timeout", "error"}}
            \cup {[kind |-> "body", marker |-> FALSE, text |-> <<>>],
                  [kind |-> "body", marker |-> TRUE, text |-> GbMapText(url)],
                  [kind |-> "body", marker |-> TRUE, text |-> <<"-", "w">>]}

\* scrape_events: event_urls
RECURSIVE GbEventUrls(_)
GbEventUrls(items) ==
    IF items = <<>> THEN <<>>
    ELSE (IF Head(items).hasLink
          THEN <<[title |-> Head(items).title,
                  url |-> <<"https://www.gratis-in-berlin.de">> \o Head(items).href]>>
          ELSE <<>>) \o GbEventUrls(Tail(items))

\* a faulty _scrape_event_detail: any page that could be fetched counts as a success
ScrapeEventDetailAnyBody(eventData, outcome) ==
    [title |-> eventData.title, url |-> eventData.url,
     address |-> IF outcome.kind = "body" /\ outcome.marker
                 THEN MainPart(outcome.text, "-") ELSE <<>>,
     success |-> outcome.kind = "body",
     error |-> IF outcome.kind = "body" THEN "None" ELSE outcome.kind]

\* _scrape_event_detail
ScrapeEventDetail(eventData, outcome) ==
    LET addressText == IF outcome.kind = "body" /\ outcome.marker
                       THEN MainPart(outcome.text, "-")
                       ELSE <<>>
    IN IF outcome.kind = "body" /\ addressText # <<>>
       THEN [title |-> eventData.title, url |-> eventData.url,
             address |-> addressText, success |-> TRUE, error |-> "None"]
       ELSE [title |-> eventData.title, url |-> eventData.url,
             address |-> <<>>, success |-> FALSE,
             error |-> IF outcome.kind = "body" THEN "None" ELSE outcome.kind]

\* scrape_events: the listing page is fetched and the detail fetches are submitted
GbListing ==
    /\ prog = "gratis" /\ gbPc = "listing"
    /\ \E ok \in BOOLEAN, n \in 0..MaxItems :
        IF ok
        THEN /\ gbUrls' = GbEventUrls(GbListingOf(n))
             /\ gbPc' = "pool"
             /\ gbExit' = gbExit
        ELSE /\ gbPc' = "done" /\ gbExit' = 1
             /\ gbUrls' = gbUrls
    /\ UNCHANGED <<notGB, geoVars, gbNext, gbRunning, gbOutcome, gbResult, gbYielded, gbEvents,
                   gbCoords, gbCsv, gbSaved>>

\* a faulty pool: a new thread for every submitted fetch
WorkerAlwaysFree(running) == TRUE
\* ThreadPoolExecutor(max_workers=MAX_WORKERS): a worker is idle or can be started
WorkerFree(running) == Cardinality(running) < MAX_WORKERS

\* a worker thread of the pool takes the next submitted fetch
GbStart ==
    /\ prog = "gratis" /\ gbPc = "pool"
    /\ gbNext <= Len(gbUrls)
    /\ WorkerFree(gbRunning)
    /\ gbRunning' = gbRunning \cup {gbNext}
    /\ gbNext' = gbNext + 1
    /\ UNCHANGED <<notGB, geoVars, gbPc, gbUrls, gbOutcome, gbResult, gbYielded, gbEvents,
                   gbCoords, gbCsv, gbSaved, gbExit>>

\* a running _scrape_event_detail returns
GbFinish ==
    /\ prog = "gratis" /\ gbPc = "pool"
    /\ \E i \in gbRunning :
       \E outcome \in GbFetchOutcomes(gbUrls[i].url) :
        /\ gbRunning' = gbRunning \ {i}
        /\ gbOutcome' = (i :> outcome) @@ gbOutcome
        /\ gbResult' = [k \in DOMAIN gbResult \cup {i} |->
                           IF k = i THEN ScrapeEventDetail(gbUrls[i], outcome)
                           ELSE gbResult[k]]
    /\ UNCHANGED <<notGB, geoVars, gbPc, gbUrls, gbNext, gbYielded, gbEvents,
                   gbCoords, gbCsv, gbSaved, gbExit>>

\* a faulty accumulation: a read-modify-write of the list that loses what another
\* thread appended in between
AccumulateLost(events, result) ==
    IF result.success THEN <<result>> ELSE events
\* scrape_events: `if result.success: events.append(result)`, in the thread that
\* iterates as_completed
Accumulate(events, result) ==
    IF result.success THEN Append(events, result) ELSE events

\* scrape_events: as_completed yields a finished future
GbCollect ==
    /\ prog = "gratis" /\ gbPc = "pool"
    /\ \E i \in DOMAIN gbResult \ gbYielded :
        /\ gbYielded' = gbYielded \cup {i}
        /\ gbEvents' = Accumulate(gbEvents, gbResult[i])
    /\ UNCHANGED <<notGB, geoVars, gbPc, gbUrls, gbNext, gbRunning, gbOutcome, gbResult,
                   gbCoords, gbCsv, gbSaved, gbExit>>

\* a faulty collection: the loop over as_completed is left at the first result
\* and the pool is shut down without waiting
PoolDoneAtFirst(yielded, urls) == yielded # {} \/ urls = <<>>
\* the loop over as_completed and the `with ThreadPoolExecutor` block have ended:
\* every submitted future was yielded
PoolDone(yielded, urls) == yielded = 1..Len(urls)

\* scrape_events returns; run_gratis_berlin_scraper up to the geocoding loop
GbReturn ==
    /\ prog = "gratis" /\ gbPc = "pool"
    /\ PoolDone(gbYielded, gbUrls)
    /\ IF gbEvents = <<>>
       THEN gbPc' = "done" /\ gbExit' = 0
       ELSE gbPc' = "geocode" /\ gbExit' = gbExit
    /\ UNCHANGED <<notGB, geoVars, gbUrls, gbNext, gbRunning, gbOutcome, gbResult, gbYielded,
                   gbEvents, gbCoords, gbCsv, gbSaved>>

\* GratisBerlinScraper.geocode_address
GbGeocodeAddress(address, o) ==
    [result |-> IF o.kind = "found" THEN o.loc ELSE NoneResult,
     trace |-> <<Call(address, o)>>,
     raised |-> FALSE]

\* run_gratis_berlin_scraper: one turn of the geocoding loop
GbGeocodeRow ==
    /\ prog = "gratis" /\ gbPc = "geocode" /\ Len(gbCoords) < Len(gbEvents)
    /\ \E o \in GeoOutcomes :
        LET r == GbGeocodeAddress(gbEvents[Len(gbCoords) + 1].address, o)
        IN /\ GeoAfter(r.trace, r.result)
           /\ Throttle(Len(r.trace), FALSE, GEOCODE_DELAY_SECONDS)
           /\ IF r.raised
              THEN gbPc' = "done" /\ gbExit' = 1 /\ UNCHANGED gbCoords
              ELSE gbCoords' = Append(gbCoords, r.result) /\ UNCHANGED <<gbPc, gbExit>>
    /\ UNCHANGED <<notGB, gbUrls, gbNext, gbRunning, gbOutcome, gbResult, gbYielded,
                   gbEvents, gbCsv, gbSaved>>

\* run_gratis_berlin_scraper: the rows of df_mapped
GbMappedRows(events, coords) ==
    LET kept == KeptRows(coords, 1)
    IN [k \in 1..Len(kept) |->
           [title |-> events[kept[k]].title, url |-> events[kept[k]].url,
            address |-> events[kept[k]].address,
            lat |-> coords[kept[k]].lat, lon |-> coords[kept[k]].lon]]

\* run_gratis_berlin_scraper: dropna, to_csv, return
GbSave ==
    /\ prog = "gratis" /\ gbPc = "geocode" /\ Len(gbCoords) = Len(gbEvents)
    /\ gbCsv' = GbMappedRows(gbEvents, gbCoords)
    /\ gbSaved' = TRUE
    /\ gbExit' = 0
    /\ gbPc' = "done"
    /\ UNCHANGED <<notGB, geoVars, gbUrls, gbNext, gbRunning, gbOutcome, gbResult, gbYielded,
                   gbEvents, gbCoords>>

-----------------------------------------------------------------------------
(* tip Berlin *)

\* an event box of the page: the text of its title tag, address span and venue
\* span, None for a tag the box does not have
Box(title, address, venue) == [title |-> title, address |-> address, venue |-> venue]
Street1 == <<"S", " ", "1">>
BoxAddress == Box(PyStr(<<"T">>), PyStr(Street1), PyNone)
BoxVenue == Box(PyStr(<<"U">>), PyNone, PyStr(<<"K">>))
BoxNoTitleTag == Box(PyNone, PyStr(Street1), PyNone)
BoxEmptyTitle == Box(PyStr(<<>>), PyStr(Street1), PyNone)
BoxNoPlace == Box(PyStr(<<"V">>), PyNone, PyNone)
BoxEmptyAddress == Box(PyStr(<<"W">>), PyStr(<<>>), PyStr(<<"K">>))
TbPages ==
    { <<>>,
      <<BoxAddress, BoxVenue>>,
      <<BoxNoTitleTag, BoxEmptyTitle, BoxNoPlace>>,
      <<BoxEmptyAddress, BoxAddress>> }

\* _parse_events_from_html
RECURSIVE ParseEventsFromHtml(_)
ParseEventsFromHtml(boxes) ==
    IF boxes = <<>> THEN <<>>
    ELSE (IF Truthy(Head(boxes).title)
             /\ (Truthy(Head(boxes).address) \/ Truthy(Head(boxes).venue))
          THEN <<[title |-> Head(boxes).title.s, address |-> Head(boxes).address,
                  venue |-> Head(boxes).venue]>>
          ELSE <<>>) \o ParseEventsFromHtml(Tail(boxes))

\* any(char.isdigit() for char in text)
HasDigit(text) ==
    \E i \in 1..Len(text) : text[i] \in {"0", "1", "2", "3", "4", "5", "6", "7", "8", "9"}
\* geocode_location: search_query
SearchQuery(text) == IF HasDigit(text) THEN text ELSE text \o BerlinGermany
\* a faulty geocode_location: the service's exception is not caught
GeocodeLocationUncaught(text, o) ==
    [result |-> IF o.kind = "found" THEN o.loc ELSE NoneResult,
     trace |-> <<Call(SearchQuery(text), o)>>,
     raised |-> o.kind = "error"]
\* TipBerlinScraper.geocode_location(text), the service answering o
GeocodeLocation(text, o) ==
    [result |-> IF o.kind = "found" THEN o.loc ELSE NoneResult,
     trace |-> <<Call(SearchQuery(text), o)>>,
     raised |-> FALSE]
\* run_tip_berlin_scraper: row.get("address") or row.get("venue")
LocationText(row) == IF Truthy(row.address) THEN row.address ELSE row.venue

\* a faulty scrape_events: sync_playwright().start() with no matching stop()
ExitPlaywrightNever(playwright) == playwright
\* the end of the `with sync_playwright() as p` block, left normally or by an
\* exception: the Playwright driver is stopped, and with it every browser it runs
ExitPlaywright(playwright) == "stopped"

\* scrape_events: the browser is launched and the daily highlights page opened
TbOpen ==
    /\ prog = "tip" /\ tbPc = "start"
    /\ tbPlaywright' = "running"
    /\ tbBrowser' = "open"
    /\ tbLaunches' = tbLaunches + 1
    /\ \E ok \in BOOLEAN :
        IF ok
        THEN /\ tbPc' = "overlays"
             /\ UNCHANGED <<tbExit>>
        ELSE /\ tbPc' = "raised"
             /\ UNCHANGED <<tbExit>>
    /\ UNCHANGED <<notTB, geoVars, tbOverlays, tbEvents, tbCoords, tbCsv, tbSaved>>

\* _handle_cookie_banner: cookie_selectors
COOKIE_SELECTORS ==
    <<"button:has-text(Akzeptieren)", "button:has-text(Alle akzeptieren)",
      "button:has-text(Accept)", "[title=Akzeptieren]", ".sp_choice_type_11",
      "button[title=Zustimmen]">>
\* _handle_popup: close_selectors
CLOSE_SELECTORS ==
    <<"button:has-text(Schliessen)", "button:has-text(x)", "[aria-label=Close]", ".close",
      ".modal-close">>
\* what the page does with one selector attempt: is_visible is false; locator or
\* is_visible raises; is_visible is true and the click raises; is_visible is true
\* and the click and the wait after it succeed
SelectorOutcomes == {"hidden", "error", "click_failed", "clicked"}
\* the pages: of the selectors of a list at most one can be clicked, and the
\* attempt on at most one other raises
PageAnswers(selectors) ==
    LET hidden == [i \in DOMAIN selectors |-> "hidden"]
        raising == {hidden} \cup {[hidden EXCEPT ![i] = e] :
                                     i \in DOMAIN selectors, e \in {"error", "click_failed"}}
    IN raising \cup UNION {{[o EXCEPT ![i] = "clicked"] :
                                 i \in {j \in DOMAIN selectors : o[j] = "hidden"}} :
                              o \in raising}
\* the loop of _handle_cookie_banner and of _handle_popup from selector i on: the
\* attempts made, in order; `return` after a click, `continue` after an exception
RECURSIVE HandleOverlay(_, _, _)
HandleOverlay(selectors, o, i) ==
    IF i > Len(selectors) THEN <<>>
    ELSE <<[selector |-> selectors[i], outcome |-> o[i]]>>
            \o (IF o[i] = "clicked" THEN <<>> ELSE HandleOverlay(selectors, o, i + 1))
\* the handler clicked its overlay away
Dismissed(log) == log # <<>> /\ log[Len(log)].outcome = "clicked"
NoOverlays == [cookie |-> FALSE, popup |-> FALSE, handler |-> "none", log |-> <<>>]
\* the page is closed: the attempts made on it are gone
PageClosed(overlays) == [overlays EXCEPT !.handler = "none", !.log = <<>>]

\* scrape_events: _handle_cookie_banner
TbCookieBanner ==
    /\ prog = "tip" /\ tbPc = "overlays"
    /\ \E o \in PageAnswers(COOKIE_SELECTORS) :
        LET log == HandleOverlay(COOKIE_SELECTORS, o, 1)
        IN tbOverlays' = [tbOverlays EXCEPT !.cookie = Dismissed(log),
                                            !.handler = "cookie", !.log = log]
    /\ tbPc' = "popup"
    /\ UNCHANGED <<notTB, geoVars, tbPlaywright, tbBrowser, tbLaunches, tbEvents, tbCoords,
                   tbCsv, tbSaved, tbExit>>

\* scrape_events: _handle_popup
TbPopup ==
    /\ prog = "tip" /\ tbPc = "popup"
    /\ \E o \in PageAnswers(CLOSE_SELECTORS) :
        LET log == HandleOverlay(CLOSE_SELECTORS, o, 1)
        IN tbOverlays' = [tbOverlays EXCEPT !.popup = Dismissed(log),
                                            !.handler = "popup", !.log = log]
    /\ tbPc' = "navigate"
    /\ UNCHANGED <<notTB, geoVars, tbPlaywright, tbBrowser, tbLaunches, tbEvents, tbCoords,
                   tbCsv, tbSaved, tbExit>>

\* scrape_events: _navigate_to_events, page.content(), browser.close(), the with
\* block ends, the page is parsed; run_tip_berlin_scraper up to the geocoding loop
TbNavigate ==
    /\ prog = "tip" /\ tbPc = "navigate"
    /\ \E click \in BOOLEAN, direct \in BOOLEAN, page \in TbPages :
        IF click \/ direct
        THEN LET events == ParseEventsFromHtml(page)
             IN /\ tbBrowser' = "closed"
                /\ tbPlaywright' = ExitPlaywright(tbPlaywright)
                /\ tbEvents' = events
                /\ tbOverlays' = PageClosed(tbOverlays)
                /\ IF events = <<>>
                   THEN tbPc' = "done" /\ tbExit' = 0
                   ELSE tbPc' = "geocode" /\ tbExit' = tbExit
        ELSE /\ tbPc' = "raised"
             /\ UNCHANGED <<tbPlaywright, tbBrowser, tbOverlays, tbEvents, tbExit>>
    /\ UNCHANGED <<notTB, geoVars, tbLaunches, tbCoords, tbCsv, tbSaved>>

\* an exception leaves the with block of scrape_events and ends the script
TbAbort ==
    /\ prog = "tip" /\ tbPc = "raised"
    /\ tbPlaywright' = ExitPlaywright(tbPlaywright)
    /\ tbPc' = "done"
    /\ tbExit' = 1
    /\ tbOverlays' = PageClosed(tbOverlays)
    /\ UNCHANGED <<notTB, geoVars, tbBrowser, tbLaunches, tbEvents, tbCoords, tbCsv, tbSaved>>

\* run_tip_berlin_scraper: one turn of the geocoding loop
TbGeocodeRow ==
    /\ prog = "tip" /\ tbPc = "geocode" /\ Len(tbCoords) < Len(tbEvents)
    /\ LET text == LocationText(tbEvents[Len(tbCoords) + 1])
       IN IF Truthy(text)
          THEN \E o \in GeoOutcomes :
                LET r == GeocodeLocation(text.s, o)
                IN /\ GeoAfter(r.trace, r.result)
                   /\ Throttle(Len(r.trace), FALSE, GEOCODE_DELAY_SECONDS)
                   /\ IF r.raised
                      THEN tbPc' = "done" /\ tbExit' = 1 /\ UNCHANGED tbCoords
                      ELSE /\ tbCoords' = Append(tbCoords, r.result)
                           /\ UNCHANGED <<tbPc, tbExit>>
          ELSE /\ tbCoords' = Append(tbCoords, NoneResult)
               /\ UNCHANGED <<geoVars, tbPc, tbExit>>
    /\ UNCHANGED <<notTB, tbPlaywright, tbBrowser, tbLaunches, tbOverlays, tbEvents, tbCsv,
                   tbSaved>>

\* run_tip_berlin_scraper: dropna, to_csv, return
TbSave ==
    /\ prog = "tip" /\ tbPc = "geocode" /\ Len(tbCoords) = Len(tbEvents)
    /\ tbCsv' = MappedRows(tbEvents, tbCoords)
    /\ tbSaved' = TRUE
    /\ tbExit' = 0
    /\ tbPc' = "done"
    /\ UNCHANGED <<notTB, geoVars, tbPlaywright, tbBrowser, tbLaunches, tbOverlays,
                   tbEvents, tbCoords>>

-----------------------------------------------------------------------------
(* Merge stage: the artifacts it can find *)

\* a file: absent, not parseable as CSV, or a table; a raw row maps each column
\* to the text of its cell
Missing == [kind |-> "missing", columns |-> {}, rows |-> <<>>]
Unreadable == [kind |-> "unreadable", columns |-> {}, rows |-> <<>>]
Table(columns, rows) == [kind |-> "table", columns |-> columns, rows |-> rows]

CanonColumns == {"title", "address", "lat", "lon"}
CanonRow(title, lat, lon) ==
    ("title" :> title) @@ ("address" :> "S 1") @@ ("lat" :> lat) @@ ("lon" :> lon)
VenueColumns == {"Event name", "Venue", "Venue Latitude", "Venue Longitude"}
VenueRow(name, lat, lon) ==
    ("Event name" :> name) @@ ("Venue" :> "K") @@ ("Venue Latitude" :> lat)
        @@ ("Venue Longitude" :> lon)

CanonFull == Table(CanonColumns, <<CanonRow("T", "52.50", "13.40"), CanonRow("U", "52.52", "13.45")>>)
CanonHoles ==
    Table(CanonColumns \cup {"source"},
          <<CanonRow("", "52.50", "13.40") @@ ("source" :> "x"),
            CanonRow("V", "", "13.40") @@ ("source" :> "x"),
            CanonRow("N/A", "52.52", "13.45") @@ ("source" :> "x")>>)
CanonEmpty == Table(CanonColumns, <<>>)
NoCoords == Table({"title"}, <<("title" :> "T")>>)
VenueFull == Table(VenueColumns, <<VenueRow("E", "52.50", "13.40")>>)
VenueHoles == Table(VenueColumns, <<VenueRow("", "52.50", "13.40"), VenueRow("F", "", "")>>)

ScrapedArtifacts == {Missing, Unreadable, CanonFull, CanonHoles, CanonEmpty, NoCoords}
RaFile(name, art) == [name |-> name, art |-> art]
RaRunFiles == {RaFile("RA_1_events.csv", VenueFull), RaFile("RA_2_events.csv", VenueHoles),
               RaFile("RA_3_events.csv", Unreadable)}
RaCwdFiles == {RaFile("RA_0_events.csv", VenueFull), RaFile("RA_3_events.csv", Unreadable)}

-----------------------------------------------------------------------------
(* Merge stage: load_csv_sources *)

CSVSource(file_pattern, name, color, icon) ==
    [file_pattern |-> file_pattern, name |-> name, color |-> color, icon |-> icon]
CSV_SOURCES ==
    << CSVSource(<<"tip_berlin_events.csv">>, "tip Berlin", "blue", "star"),
       CSVSource(<<"gratis_berlin_events.csv">>, "Gratis in Berlin", "green", "gift"),
       CSVSource(<<"visitberlin_events.csv">>, "visit Berlin", "purple", "info-sign"),
       CSVSource(<<"RA_", "*", "_events.csv">>, "Resident Advisor", "red", "music") >>
PlainFiles == {CSV_SOURCES[i].file_pattern : i \in {j \in DOMAIN CSV_SOURCES :
                                                     ~Contains(CSV_SOURCES[j].file_pattern, "*")}}

\* a cell pandas reads as missing
NaN == "NaN"
NA_VALUES == {"", "N/A", "NaN", "None"}
ReadCell(x) == IF x \in NA_VALUES THEN NaN ELSE x
\* pd.read_csv on a table
ReadCsv(art) ==
    [columns |-> art.columns,
     rows |-> [i \in 1..Len(art.rows) |->
                  [c \in DOMAIN art.rows[i] |-> ReadCell(art.rows[i][c])]]]

\* a faulty tagging: the column is added only where the row has none of that name
SetColumnIfAbsent(df, column, value) ==
    [columns |-> df.columns \cup {column},
     rows |-> [i \in 1..Len(df.rows) |-> df.rows[i] @@ (column :> value)]]
\* df[column] = value: the column is set, or added, on every row
SetColumn(df, column, value) ==
    [columns |-> df.columns \cup {column},
     rows |-> [i \in 1..Len(df.rows) |-> (column :> value) @@ df.rows[i]]]
\* df[column] = df[other]
CopyColumn(df, column, other) ==
    [columns |-> df.columns \cup {column},
     rows |-> [i \in 1..Len(df.rows) |-> (column :> df.rows[i][other]) @@ df.rows[i]]]
\* a faulty dropna: how="all", which drops a row only when both cells are missing
RECURSIVE DropNaAll(_)
DropNaAll(rows) ==
    IF rows = <<>> THEN <<>>
    ELSE (IF Head(rows)["lat"] # NaN \/ Head(rows)["lon"] # NaN THEN <<Head(rows)>> ELSE <<>>)
            \o DropNaAll(Tail(rows))
\* df.dropna(subset=["lat", "lon"]), the subset's columns being there
RECURSIVE DropNa(_)
DropNa(rows) ==
    IF rows = <<>> THEN <<>>
    ELSE (IF Head(rows)["lat"] # NaN /\ Head(rows)["lon"] # NaN THEN <<Head(rows)>> ELSE <<>>)
            \o DropNa(Tail(rows))

\* the files glob.glob finds for a wildcard pattern: the run folder's, else the
\* current directory's
Matches(run, cwd) == IF run # {} THEN run ELSE cwd
\* the artifacts the source's file_path can end up naming; glob returns its
\* matches in arbitrary order, so matches[-1] is any of them
Candidates(source, folder, run, cwd) ==
    IF Contains(source.file_pattern, "*")
    THEN IF Matches(run, cwd) = {} THEN {Missing}
         ELSE {f.art : f \in Matches(run, cwd)}
    ELSE {folder[source.file_pattern]}

\* a faulty loader: a file that cannot be parsed is taken for an empty table
LoadSourceEmptyOnError(source, art) ==
    IF art.kind = "missing" THEN [raised |-> "FileNotFoundError", frame |-> Missing]
    ELSE [raised |-> "None",
          frame |-> [kind |-> "table", columns |-> {"source", "color", "icon"},
                     rows |-> <<>>]]

\* the body of the try block for one source read from art: the exception it
\* raises, or the frame it appends
LoadSource(source, art) ==
    IF art.kind = "missing" THEN [raised |-> "FileNotFoundError", frame |-> Missing]
    ELSE IF art.kind = "unreadable" THEN [raised |-> "Exception", frame |-> Missing]
    ELSE LET df == SetColumn(SetColumn(SetColumn(ReadCsv(art), "source", source.name),
                                       "color", source.color), "icon", source.icon)
             norm == IF {"Venue Latitude", "Venue Longitude"} \subseteq df.columns
                     THEN CopyColumn(CopyColumn(df, "lat", "Venue Latitude"),
                                     "lon", "Venue Longitude")
                     ELSE df
         IN IF {"lat", "lon"} \subseteq norm.columns
            THEN [raised |-> "None",
                  frame |-> [kind |-> "table", columns |-> norm.columns,
                             rows |-> DropNa(norm.rows)]]
            ELSE [raised |-> "KeyError", frame |-> Missing]

\* pd.concat(all_events, ignore_index=True); pd.DataFrame() when there are none
RECURSIVE AllColumns(_)
AllColumns(frames) ==
    IF frames = <<>> THEN {} ELSE Head(frames).columns \cup AllColumns(Tail(frames))
RECURSIVE AllRows(_)
AllRows(frames) == IF frames = <<>> THEN <<>> ELSE Head(frames).rows \o AllRows(Tail(frames))
\* a faulty merge: only the frame loaded last is returned
ConcatLast(frames) ==
    IF frames = <<>> THEN [columns |-> {}, rows |-> <<>>]
    ELSE [columns |-> frames[Len(frames)].columns, rows |-> frames[Len(frames)].rows]
Concat(frames) ==
    [columns |-> AllColumns(frames),
     rows |-> [i \in 1..Len(AllRows(frames)) |->
                  [c \in AllColumns(frames) |->
                      IF c \in DOMAIN AllRows(frames)[i] THEN AllRows(frames)[i][c]
                      ELSE NaN]]]

\* get_event_field(row, *field_names)
RECURSIVE GetEventField(_, _)
GetEventField(row, field_names) ==
    IF field_names = <<>> THEN "None"
    ELSE IF Head(field_names) \in DOMAIN row /\ row[Head(field_names)] # NaN
         THEN row[Head(field_names)]
         ELSE GetEventField(row, Tail(field_names))

\* load_csv_sources: one turn of the loop over CSV_SOURCES
MgLoadSource ==
    /\ prog = "merge" /\ mgPc = "load" /\ mgIdx <= Len(CSV_SOURCES)
    /\ LET source == CSV_SOURCES[mgIdx]
       IN \E art \in Candidates(source, mgFolder, mgRaRun, mgRaCwd) :
            LET r == LoadSource(source, art)
            IN /\ mgPicked' = Append(mgPicked, art)
               /\ IF r.raised = "None"
                  THEN /\ mgFrames' = Append(mgFrames, r.frame)
                       /\ mgStats' = (source.name :> Len(r.frame.rows)) @@ mgStats
                  ELSE UNCHANGED <<mgFrames, mgStats>>
    /\ mgIdx' = mgIdx + 1
    /\ UNCHANGED <<notMG, mgPc, mgFolder, mgRaRun, mgRaCwd, mgTable>>

\* load_csv_sources returns
MgReturn ==
    /\ prog = "merge" /\ mgPc = "load" /\ mgIdx > Len(CSV_SOURCES)
    /\ mgTable' = Concat(mgFrames)
    /\ mgPc' = "done"
    /\ UNCHANGED <<notMG, mgFolder, mgRaRun, mgRaCwd, mgIdx, mgPicked, mgFrames, mgStats>>

-----------------------------------------------------------------------------
(* The orchestrator (main.py) *)

ScraperConfig(name, script, output_csv, is_ra) ==
    [name |-> name, script |-> script, output_csv |-> output_csv, is_ra |-> is_ra]
SCRAPERS ==
    << ScraperConfig("Resident Advisor", "RA_event_fetcher.py", PyNone, TRUE),
       ScraperConfig("tip Berlin", "scrapeTipBerlinBot.py",
                     PyStr(<<"tip_berlin_events.csv">>), FALSE),
       ScraperConfig("Visit Berlin", "scrapeVisitBerlin.py",
                     PyStr(<<"visitberlin_events.csv">>), FALSE),
       ScraperConfig("Gratis in Berlin", "scrapeGratisInBerlinParallel.py",
                     PyStr(<<"gratis_berlin_events.csv">>), FALSE) >>

\* the script this run executes
Script ==
    CASE prog = "ra" -> "RA_event_fetcher.py"
      [] prog = "tip" -> "scrapeTipBerlinBot.py"
      [] prog = "visit" -> "scrapeVisitBerlin.py"
      [] prog = "gratis" -> "scrapeGratisInBerlinParallel.py"
      [] OTHER -> "none"
\* the exit status of the script (-1 while it runs)
ExitStatus ==
    CASE prog = "ra" -> raExit
      [] prog = "tip" -> tbExit
      [] prog = "visit" -> vbExit
      [] prog = "gratis" -> gbExit
      [] OTHER -> -1
\* the files the script wrote into the run folder, which main created for this run
RunFolderFiles ==
    (IF tbSaved THEN {<<"tip_berlin_events.csv">>} ELSE {})
        \cup (IF vbSaved THEN {<<"visitberlin_events.csv">>} ELSE {})
        \cup (IF gbSaved THEN {<<"gratis_berlin_events.csv">>} ELSE {})
\* the RA_*_events.csv files of the current directory: what earlier runs left there
\* and what RA_run_today.py wrote now
CwdRaFiles(earlier) == earlier \cup (IF raSaved THEN {<<"RA_", "today", "_events.csv">>} ELSE {})

\* run_script: subprocess.run(cmd, check=True) raises on a non-zero exit status
RunScript(status) == status = 0
\* verify_output
VerifyOutput(scraper, cwdRa, runFolder) ==
    IF scraper.is_ra THEN cwdRa # {}
    ELSE IF Truthy(scraper.output_csv) THEN scraper.output_csv.s \in runFolder
    ELSE FALSE

\* run_scrapers: the turn of the loop for the script of this run, once it has ended
MnRunScraper ==
    /\ ExitStatus # -1
    /\ \E i \in DOMAIN SCRAPERS, earlier \in SUBSET {<<"RA_", "old", "_events.csv">>} :
        /\ SCRAPERS[i].script = Script
        /\ SCRAPERS[i].name \notin mnSuccessful \cup mnFailed
        /\ IF RunScript(ExitStatus)
              /\ VerifyOutput(SCRAPERS[i], CwdRaFiles(earlier), RunFolderFiles)
           THEN mnSuccessful' = mnSuccessful \cup {SCRAPERS[i].name}
                /\ mnFailed' = mnFailed
           ELSE mnFailed' = mnFailed \cup {SCRAPERS[i].name}
                /\ mnSuccessful' = mnSuccessful
    /\ UNCHANGED <<prog, geoVars, raVars, rvLog, vbVars, gbVars, tbVars, mgVars,
                   mnPc, mnIdx, mnRan, mnFolder, mnCombined>>

\* the file RA_run_today.py writes into the current directory
RaToday == <<"RA_", "today", "_events.csv">>
\* what a scraper script that was started leaves behind: its artifact or nothing
Written(scraper, wrote) ==
    IF wrote /\ ~scraper.is_ra /\ Truthy(scraper.output_csv) THEN {scraper.output_csv.s}
    ELSE {}

\* run_scrapers: one turn of the loop over SCRAPERS, all of which are enabled; the
\* script is there or not, ends with `status`, and wrote its artifact or not
MnScraperTurn ==
    /\ prog = "main" /\ mnPc = "scrapers" /\ mnIdx <= Len(SCRAPERS)
    /\ LET scraper == SCRAPERS[mnIdx]
       IN \E exists \in BOOLEAN, status \in {0, 1}, wrote \in BOOLEAN,
             earlier \in SUBSET {<<"RA_", "old", "_events.csv">>} :
            IF ~exists
            THEN /\ mnFailed' = mnFailed \cup {scraper.name}
                 /\ UNCHANGED <<mnSuccessful, mnRan, mnFolder>>
            ELSE LET folder == mnFolder \cup Written(scraper, wrote)
                     cwdRa == earlier \cup (IF wrote /\ scraper.is_ra THEN {RaToday} ELSE {})
                 IN /\ mnRan' = Append(mnRan, scraper.name)
                    /\ mnFolder' = folder
                    /\ IF RunScript(status) /\ VerifyOutput(scraper, cwdRa, folder)
                       THEN /\ mnSuccessful' = mnSuccessful \cup {scraper.name}
                            /\ mnFailed' = mnFailed
                       ELSE /\ mnFailed' = mnFailed \cup {scraper.name}
                            /\ mnSuccessful' = mnSuccessful
    /\ mnIdx' = mnIdx + 1
    /\ UNCHANGED <<prog, geoVars, raVars, rvLog, vbVars, gbVars, tbVars, mgVars, mnPc,
                   mnCombined>>

\* a faulty main: the combine stage does not look at the list of successful scrapers
CombineStageAlways(successful, exists) ==
    IF ~exists THEN "script_missing" ELSE "ran"
\* main: what it does after run_scrapers returned `successful`, the combine
\* script being there or not
CombineStage(successful, exists) ==
    IF successful = {} THEN "no_scraper_succeeded"
    ELSE IF ~exists THEN "script_missing"
    ELSE "ran"

\* main: run_scrapers has returned; the combine stage
MnCombine ==
    /\ prog = "main" /\ mnPc = "scrapers" /\ mnIdx > Len(SCRAPERS)
    /\ \E exists \in BOOLEAN : mnCombined' = CombineStage(mnSuccessful, exists)
    /\ mnPc' = "done"
    /\ UNCHANGED <<prog, geoVars, raVars, rvLog, vbVars, gbVars, tbVars, mgVars,
                   mnSuccessful, mnFailed, mnIdx, mnRan, mnFolder>>

-----------------------------------------------------------------------------
(* Initial states *)

MnRest == mnSuccessful = {} /\ mnFailed = {} /\ mnIdx = 1 /\ mnRan = <<>>
    /\ mnFolder = {} /\ mnCombined = "not_reached"
MnIdle == mnPc = "idle" /\ MnRest
MnStart == mnPc = "scrapers" /\ MnRest

GeoIdle ==
    /\ geoCalls = [q \in {} |-> 0] /\ geoErrs = {}
    /\ geoTrace = <<>> /\ geoResult = NoneResult
    /\ geoWait = GEOCODE_DELAY_SECONDS /\ geoMinGap = GEOCODE_DELAY_SECONDS
RaRest ==
    /\ raPage = 1 /\ raAllEvents = <<>> /\ raResponses = <<>> /\ raPending = {}
    /\ raCache = EmptyCache /\ raCsv = <<>> /\ raSaved = FALSE /\ raExit = -1
RaIdle == raPc = "idle" /\ raTemplate = TRUE /\ RaRest /\ rvLog = <<>>
RaStart == raPc = "init" /\ raTemplate \in BOOLEAN /\ RaRest /\ rvLog = <<>>
VbRest ==
    /\ vbEvents = <<>> /\ vbCoords = <<>>
    /\ vbCsv = <<>> /\ vbSaved = FALSE /\ vbExit = -1
VbIdle == vbPc = "idle" /\ VbRest
VbStart == vbPc = "scrape" /\ VbRest
GbRest ==
    /\ gbUrls = <<>> /\ gbNext = 1 /\ gbRunning = {} /\ gbOutcome = [i \in {} |-> 0]
    /\ gbResult = [i \in {} |-> 0]
    /\ gbYielded = {} /\ gbEvents = <<>> /\ gbCoords = <<>> /\ gbCsv = <<>>
    /\ gbSaved = FALSE /\ gbExit = -1
GbIdle == gbPc = "idle" /\ GbRest
\* scrape_events at the pool, the crowded listing page read
GbCrowded ==
    /\ gbPc = "pool" /\ gbUrls = GbEventUrls(GbCrowdedListing(PoolItems))
    /\ gbNext = 1 /\ gbRunning = {} /\ gbOutcome = [i \in {} |-> 0]
    /\ gbResult = [i \in {} |-> 0]
    /\ gbYielded = {} /\ gbEvents = <<>> /\ gbCoords = <<>> /\ gbCsv = <<>>
    /\ gbSaved = FALSE /\ gbExit = -1
GbStartState == gbPc = "listing" /\ GbRest
TbRest ==
    /\ tbPlaywright = "off" /\ tbBrowser = "none" /\ tbLaunches = 0
    /\ tbOverlays = NoOverlays
    /\ tbEvents = <<>> /\ tbCoords = <<>> /\ tbCsv = <<>>
    /\ tbSaved = FALSE /\ tbExit = -1
TbIdle == tbPc = "idle" /\ TbRest
TbStart == tbPc = "start" /\ TbRest
MgRest ==
    /\ mgIdx = 1 /\ mgPicked = <<>> /\ mgFrames = <<>>
    /\ mgStats = [n \in {} |-> 0] /\ mgTable = Concat(<<>>)
MgIdle ==
    /\ mgPc = "idle" /\ mgFolder = [f \in PlainFiles |-> Missing]
    /\ mgRaRun = {} /\ mgRaCwd = {} /\ MgRest
MgStart ==
    /\ mgPc = "load" /\ mgFolder \in [PlainFiles -> ScrapedArtifacts]
    /\ mgRaRun \in SUBSET RaRunFiles /\ mgRaCwd \in SUBSET RaCwdFiles /\ MgRest

InitRA == prog = "ra" /\ GeoIdle /\ RaStart /\ VbIdle /\ GbIdle /\ TbIdle
    /\ MgIdle /\ MnIdle
InitResolve == prog = "resolve" /\ GeoIdle /\ RaIdle /\ VbIdle /\ GbIdle /\ TbIdle
    /\ MgIdle /\ MnIdle
InitVisit == prog = "visit" /\ GeoIdle /\ RaIdle /\ VbStart /\ GbIdle /\ TbIdle
    /\ MgIdle /\ MnIdle
InitGratis == prog = "gratis" /\ GeoIdle /\ RaIdle /\ VbIdle /\ GbStartState /\ TbIdle
    /\ MgIdle /\ MnIdle
InitTip == prog = "tip" /\ GeoIdle /\ RaIdle /\ VbIdle /\ GbIdle /\ TbStart
    /\ MgIdle /\ MnIdle
InitMerge == prog = "merge" /\ GeoIdle /\ RaIdle /\ VbIdle /\ GbIdle /\ TbIdle
    /\ MgStart /\ MnIdle

NextRA == RaConstruct \/ RaFetchPage \/ RaGeocodeVenue \/ RaWriteCsv
NextResolve == RvResolve
NextVisit == VbScrape \/ VbGeocodeRow \/ VbSave
NextGratis == GbListing \/ GbStart \/ GbFinish \/ GbCollect \/ GbReturn
                \/ GbGeocodeRow \/ GbSave
NextTip ==
    TbOpen \/ TbCookieBanner \/ TbPopup \/ TbNavigate \/ TbAbort \/ TbGeocodeRow \/ TbSave
NextMerge == MgLoadSource \/ MgReturn

SpecRA == InitRA /\ [][NextRA]_vars
SpecResolve == InitResolve /\ [][NextResolve]_vars
SpecVisit == InitVisit /\ [][NextVisit]_vars
SpecGratis == InitGratis /\ [][NextGratis]_vars
SpecTip == InitTip /\ [][NextTip]_vars

\* the detail fetches of a crowded listing page
InitGratisPool == prog = "gratis" /\ GeoIdle /\ RaIdle /\ VbIdle /\ GbCrowded /\ TbIdle
    /\ MgIdle /\ MnIdle
NextGratisPool == GbStart \/ GbFinish \/ GbCollect \/ GbReturn
SpecGratisPool == InitGratisPool /\ [][NextGratisPool]_vars
SpecMerge == InitMerge /\ [][NextMerge]_vars

\* the four pipelines, each run to its end
InitPipelines == InitRA \/ InitVisit \/ InitGratis \/ InitTip
InitMain == prog = "main" /\ GeoIdle /\ RaIdle /\ VbIdle /\ GbIdle /\ TbIdle
    /\ MgIdle /\ MnStart
NextMain == MnScraperTurn \/ MnCombine
SpecMain == InitMain /\ [][NextMain]_vars

NextPipelines == NextRA \/ NextVisit \/ NextGratis \/ NextTip
SpecPipelines == InitPipelines /\ [][NextPipelines]_vars /\ WF_vars(NextPipelines)

\* main.py: each scraper script is run to its end and then classified
SpecOrchestrator == InitPipelines /\ [][NextPipelines \/ MnRunScraper]_vars

Init == InitRA \/ InitResolve \/ InitVisit \/ InitGratis \/ InitTip \/ InitMerge
            \/ InitMain
Next == NextRA \/ NextResolve \/ NextVisit \/ NextGratis \/ NextTip \/ NextMerge
            \/ MnRunScraper \/ NextMain
Spec == Init /\ [][Next]_vars

-----------------------------------------------------------------------------
(* Properties *)

\* the records of pages 1..n, in page order
RECURSIVE PagesRecords(_, _)
PagesRecords(resps, n) ==
    IF n = 0 THEN <<>> ELSE PagesRecords(resps, n - 1) \o resps[n].events
\* the pages before page k all returned records
NonEmptyBefore(k) == \A j \in 1..(k - 1) : raResponses[j].kind = "records"

\* C1: every row an adapter writes to its artifact file has a non-empty title and
\* both coordinates; an event that could not be geocoded is not written at all.
C1_ArtifactRowsComplete ==
    /\ \A i \in DOMAIN raCsv :
        raCsv[i].title # <<>> /\ raCsv[i].lat # "" /\ raCsv[i].lon # ""
    /\ \A i \in DOMAIN vbCsv :
        vbCsv[i].title # <<>> /\ vbCsv[i].lat # "None" /\ vbCsv[i].lon # "None"
    /\ \A i \in DOMAIN gbCsv :
        gbCsv[i].title # <<>> /\ gbCsv[i].lat # "None" /\ gbCsv[i].lon # "None"
    /\ \A i \in DOMAIN tbCsv :
        tbCsv[i].title # <<>> /\ tbCsv[i].lat # "None" /\ tbCsv[i].lon # "None"

\* C2: when pages 1..N return records and page N+1 is empty, fetch_all_events has
\* ended, N+1 requests were issued and no more ever are, and the list it returns
\* is the records of pages 1..N, each page once, in order.
C2_PaginationTermination ==
    \A k \in DOMAIN raResponses :
        (raResponses[k].kind = "empty" /\ NonEmptyBefore(k)) =>
            /\ Len(raResponses) = k
            /\ raPc # "fetch"
            /\ raAllEvents = PagesRecords(raResponses, k - 1)
\* two pages of records, then the empty page: the loop has ended with both pages
C2_TwoPagesThenEmpty ==
    /\ Len(raResponses) = 3 /\ raResponses[3].kind = "empty" /\ NonEmptyBefore(3)
    /\ raResponses[1].events # raResponses[2].events
    /\ raPc = "geocode"
    /\ raAllEvents = raResponses[1].events \o raResponses[2].events

\* C3: when the request for page k fails in any way (timeout, HTTP error, non-JSON
\* body, no `data` envelope, no listings array in it), no page k+1 is requested,
\* the records of pages 1..k-1 are kept, and the run goes on to geocode and save
\* them instead of ending with a failure status.
C3_PageFailureIsPartialSuccess ==
    \A k \in DOMAIN raResponses :
        (raResponses[k].kind \in FailureKinds /\ NonEmptyBefore(k)) =>
            /\ Len(raResponses) = k
            /\ raPc # "fetch"
            /\ raExit # 1
            /\ raAllEvents = PagesRecords(raResponses, k - 1)
            /\ (raPc = "done" /\ k > 1) => (raSaved /\ Len(raCsv) = Len(raAllEvents))

\* the first resolve, in call order, of the query of the i-th resolve
FirstResolve(i) ==
    CHOOSE j \in 1..i :
        /\ GeoQuery(rvLog[j].name, rvLog[j].address) = GeoQuery(rvLog[i].name, rvLog[i].address)
        /\ \A m \in 1..(j - 1) :
            GeoQuery(rvLog[m].name, rvLog[m].address) # GeoQuery(rvLog[i].name, rvLog[i].address)

\* C4: however often one (venue name, venue address) query is resolved on one
\* EventFetcher, the external service is called exactly once for it, by the first
\* resolve, and every later resolve returns what the first one returned without
\* an external call.
C4_CacheIdempotence ==
    \A i \in DOMAIN rvLog :
        /\ CallsTo(GeoQuery(rvLog[i].name, rvLog[i].address)) = 1
        /\ rvLog[FirstResolve(i)].external
        /\ i # FirstResolve(i) =>
            (~rvLog[i].external /\ rvLog[i].result = rvLog[FirstResolve(i)].result)

\* C5: save_events_to_csv calls the external geocoder exactly once per distinct
\* (venue name, venue address) pair of the fetched events, and events that share
\* a venue are written with the same coordinates.
C5_OneCallPerDistinctVenue ==
    raSaved =>
        /\ TotalCalls = Cardinality(UniqueVenues(raAllEvents))
        /\ \A i, j \in DOMAIN raCsv :
            VenuePair(raAllEvents[i]) = VenuePair(raAllEvents[j]) =>
                (raCsv[i].lat = raCsv[j].lat /\ raCsv[i].lon = raCsv[j].lon)

\* the detail fetch of the i-th listed event failed: it threw or timed out, or
\* the page it got shows no address (no marker, or nothing before the "-")
FetchFailed(i) ==
    \/ gbOutcome[i].kind # "body"
    \/ ~gbOutcome[i].marker
    \/ MainPart(gbOutcome[i].text, "-") = <<>>
\* scrape_events has returned
GbReturned == gbPc \in {"geocode", "done"} /\ gbExit # 1

\* C6: whichever detail fetches fail, scrape_events runs every detail fetch to
\* completion, returns, and returns exactly the events whose fetch did not fail,
\* each once.
C6_PartialFailureTolerance ==
    GbReturned =>
        /\ gbRunning = {}
        /\ DOMAIN gbOutcome = 1..Len(gbUrls)
        /\ Len(gbEvents) = Cardinality({i \in 1..Len(gbUrls) : ~FetchFailed(i)})
        /\ \A i \in 1..Len(gbUrls) :
            ~FetchFailed(i) <=>
                \E k \in DOMAIN gbEvents :
                    gbEvents[k].url = gbUrls[i].url /\ gbEvents[k].title = gbUrls[i].title
\* three events listed; one fetch timed out, one page had no marker, one succeeded
C6_TwoOfThreeFailed ==
    /\ GbReturned /\ Len(gbUrls) = 3 /\ Len(gbEvents) = 1
    /\ \E i, j \in 1..3 : gbOutcome[i].kind = "timeout"
                          /\ gbOutcome[j].kind = "body" /\ ~gbOutcome[j].marker

\* a merged row's title, as the map reads it
RowTitle(row) == GetEventField(row, <<"title", "Event name">>)
\* the artifact is a table in the given naming scheme
HasColumns(art, columns) == art.kind = "table" /\ columns \subseteq art.columns

\* C7: when one loaded artifact has columns lat, lon, title and another has
\* Venue Latitude, Venue Longitude, Event name, every row of the merged table has
\* lat, lon and a title, taken from whichever column its source has.
C7_ColumnReconciliation ==
    ( /\ mgPc = "done"
      /\ \E i \in DOMAIN mgPicked : HasColumns(mgPicked[i], {"lat", "lon", "title"})
      /\ \E j \in DOMAIN mgPicked :
            HasColumns(mgPicked[j], {"Venue Latitude", "Venue Longitude", "Event name"}) )
    => \A k \in DOMAIN mgTable.rows :
        /\ mgTable.rows[k]["lat"] # NaN
        /\ mgTable.rows[k]["lon"] # NaN
        /\ RowTitle(mgTable.rows[k]) # "None"

Separators == {"-", "ndash", ":", "/"}
SeparatorsIn(address) == {sep \in Separators : Contains(address, sep)}
Truncated(address, sep) == MainPart(address, sep) \o BerlinGermany
\* the address of the latest row geocode_address was called on
VbLastAddress == vbEvents[Len(vbCoords)].address

\* C8: when the full-string query of an address finds nothing, geocode_address
\* queries the part before the separator the address contains, and when that
\* query finds a location it returns that location.
C8_FallbackGeocoding ==
    (prog = "visit" /\ vbCoords # <<>> /\ geoTrace[1].kind = "none") =>
        \A sep \in SeparatorsIn(VbLastAddress) :
            /\ SeparatorsIn(VbLastAddress) = {sep} =>
                (Len(geoTrace) >= 2 /\ geoTrace[2].query = Truncated(VbLastAddress, sep))
            /\ \A i \in 2..Len(geoTrace) :
                (geoTrace[i].query = Truncated(VbLastAddress, sep)
                    /\ geoTrace[i].kind = "found") =>
                    (geoResult = geoTrace[i].loc
                        /\ vbCoords[Len(vbCoords)] = geoTrace[i].loc)
\* "H - K": nothing found for the full string, a location found for "H"
C8_TruncatedQueryFound ==
    /\ prog = "visit" /\ vbCoords # <<>> /\ VbLastAddress = AddrCellar
    /\ Len(geoTrace) = 2
    /\ geoTrace[1].query = AddrCellar \o BerlinGermany /\ geoTrace[1].kind = "none"
    /\ geoTrace[2].query = <<"H">> \o BerlinGermany /\ geoTrace[2].kind = "found"
    /\ vbCoords[Len(vbCoords)] = geoTrace[2].loc

\* the latest resolver invocation ended on a timeout or an error of the service
LastCallFailed == geoTrace # <<>> /\ geoTrace[Len(geoTrace)].kind = "error"
\* the pipeline ended with a failure status
RunFailed == raExit = 1 \/ vbExit = 1 \/ gbExit = 1 \/ tbExit = 1
\* the pipeline has written its artifact and ended with a success status
RunSaved ==
    \/ prog = "ra" /\ raPc = "done" /\ raSaved /\ raExit = 0
    \/ prog = "visit" /\ vbPc = "done" /\ vbSaved /\ vbExit = 0
    \/ prog = "gratis" /\ gbPc = "done" /\ gbSaved /\ gbExit = 0
    \/ prog = "tip" /\ tbPc = "done" /\ tbSaved /\ tbExit = 0

\* C9: a resolver whose call to the external service times out or raises returns
\* (None, None); the pipeline that called it does not fail, and goes on to finish
\* the run.
C9_GeocodeErrorsAbsorbed ==
    /\ [](LastCallFailed => (geoResult = NoneResult /\ ~RunFailed))
    /\ (geoErrs # {}) ~> RunSaved
\* the tip Berlin run: a call failed, a later venue was resolved, the run finished
C9_RunFinishedAfterError ==
    /\ prog = "tip" /\ geoErrs # {} /\ RunSaved
    /\ Len(tbCoords) = 2 /\ tbCoords[1] = NoneResult /\ Len(tbCsv) = 1

\* the artifact cannot be loaded as an event table: it is missing, it cannot be
\* parsed, or it has the coordinate columns of neither naming scheme
Unloadable(art) ==
    ~(HasColumns(art, {"lat", "lon"})
        \/ HasColumns(art, {"Venue Latitude", "Venue Longitude"}))
\* the raw rows of a loadable artifact that have both coordinates
WithCoordinates(art) ==
    LET latCol == IF HasColumns(art, {"Venue Latitude", "Venue Longitude"})
                  THEN "Venue Latitude" ELSE "lat"
        lonCol == IF HasColumns(art, {"Venue Latitude", "Venue Longitude"})
                  THEN "Venue Longitude" ELSE "lon"
        Complete(row) == row[latCol] \notin NA_VALUES /\ row[lonCol] \notin NA_VALUES
    IN SelectSeq(art.rows, Complete)
\* the rows of the merged table tagged with the source
RowsOf(name) ==
    LET Tagged(row) == row["source"] = name
    IN SelectSeq(mgTable.rows, Tagged)
OwnColumns(art) == art.columns \ {"source", "color", "icon", "lat", "lon"}

\* C10: load_csv_sources goes through every source and returns; a source whose
\* artifact is missing or unreadable gets no rows and no statistics entry, every
\* other source gets an entry and its rows are in the table; when no source can
\* be loaded the table is empty.
C10_MissingSourcesSkipped ==
    mgPc = "done" =>
        /\ Len(mgPicked) = Len(CSV_SOURCES)
        /\ \A i \in DOMAIN CSV_SOURCES :
            IF Unloadable(mgPicked[i])
            THEN /\ CSV_SOURCES[i].name \notin DOMAIN mgStats
                 /\ RowsOf(CSV_SOURCES[i].name) = <<>>
            ELSE /\ CSV_SOURCES[i].name \in DOMAIN mgStats
                 /\ Len(RowsOf(CSV_SOURCES[i].name)) = Len(WithCoordinates(mgPicked[i]))
                 /\ \A k \in DOMAIN RowsOf(CSV_SOURCES[i].name) :
                    \A c \in OwnColumns(mgPicked[i]) :
                        RowsOf(CSV_SOURCES[i].name)[k][c]
                            = ReadCell(WithCoordinates(mgPicked[i])[k][c])
        /\ (\A i \in DOMAIN CSV_SOURCES : Unloadable(mgPicked[i])) =>
            (mgTable.rows = <<>> /\ mgTable.columns = {})
\* one artifact missing, one unreadable, two loaded: the table has the rows of the two
C10_TwoOfFourSkipped ==
    /\ mgPc = "done"
    /\ mgPicked[1] = Missing /\ mgPicked[2] = Unreadable
    /\ mgPicked[3] = CanonFull /\ mgPicked[4] = VenueFull
    /\ Len(mgTable.rows) = 3
    /\ DOMAIN mgStats = {"visit Berlin", "Resident Advisor"}

\* the name main.py knows the script of this run by
ScraperName ==
    SCRAPERS[CHOOSE i \in DOMAIN SCRAPERS : SCRAPERS[i].script = Script].name
\* the script has ended and its scrape returned an empty list of events
ZeroRecords ==
    \/ prog = "ra" /\ raPc = "done" /\ raResponses # <<>> /\ raAllEvents = <<>>
        /\ ~GetEvents(raResponses[Len(raResponses)]).raised
    \/ prog = "visit" /\ vbPc = "done" /\ vbEvents = <<>>
    \/ prog = "gratis" /\ GbReturned /\ gbPc = "done" /\ gbEvents = <<>>
    \/ prog = "tip" /\ tbPc = "done" /\ tbBrowser = "closed" /\ tbEvents = <<>>

\* C11: a script whose scrape obtained zero records ends with exit status 0, and
\* run_scrapers does not put it on the list of failed scrapers.
C11_ZeroRecordsIsSuccess ==
    ZeroRecords => (ExitStatus = 0 /\ ScraperName \notin mnFailed)

\* C12: when the query template file is missing, the run of the paginated adapter
\* never requests a page and never calls the geocoder, and when it has ended it
\* has ended with a failure status and without an artifact.
C12_MissingTemplateBeforeNetwork ==
    (prog = "ra" /\ ~raTemplate) =>
        /\ raResponses = <<>>
        /\ DOMAIN geoCalls = {}
        /\ raPc \in {"init", "done"}
        /\ raPc = "done" => (raExit = 1 /\ ~raSaved)
\* the run without a template has ended
C12_AbortedWithoutTemplate ==
    /\ prog = "ra" /\ ~raTemplate /\ raPc = "done" /\ raExit = 1
    /\ raResponses = <<>> /\ DOMAIN geoCalls = {}

\* C13: in every adapter, at least the minimum delay has passed between any two
\* consecutive calls to the external geocoding service.
C13_GeocodingThrottle == geoMinGap >= GEOCODE_DELAY_SECONDS

\* scrape_events has been left, by its return or by an exception
TbLeft == prog = "tip" /\ tbPc \in {"geocode", "done"}
\* the browser does not run any more: browser.close() was called, or the
\* Playwright driver that runs it was stopped
TbTornDown == tbBrowser = "closed" \/ (tbBrowser = "open" /\ tbPlaywright = "stopped")

\* C14: scrape_events launches at most one browser, and once it has been left, by
\* its return or by an exception, exactly one browser was launched and that
\* browser has been torn down.
C14_BrowserSessionRelease ==
    /\ tbLaunches <= 1
    /\ TbLeft => (tbLaunches = 1 /\ TbTornDown)
\* the fallback navigation raised after the overlays were handled: the script
\* ended with an error and the browser is gone with the driver
C14_ReleasedAfterException ==
    /\ TbLeft /\ tbPc = "done" /\ tbExit = 1
    /\ tbOverlays.cookie /\ tbLaunches = 1
    /\ tbBrowser = "open" /\ tbPlaywright = "stopped"

\* a title extracted from the page: not empty and not the "N/A" placeholder
RealTitle(title) == title # <<>> /\ title # NA

\* C15: every event the visit Berlin, Gratis in Berlin and tip Berlin parsers emit
\* has a real, non-empty title.
C15_TitleInvariant ==
    /\ \A i \in DOMAIN vbEvents : RealTitle(vbEvents[i].title)
    /\ \A i \in DOMAIN gbEvents : RealTitle(gbEvents[i].title)
    /\ \A i \in DOMAIN tbEvents : RealTitle(tbEvents[i].title)

\* the raw rows of the artifacts the sources were read from
RECURSIVE RawRowCount(_)
RawRowCount(arts) == IF arts = <<>> THEN 0 ELSE Len(Head(arts).rows) + RawRowCount(Tail(arts))

\* C16: every row of the table load_csv_sources returns, and of every frame it
\* collects on the way, has a lat and a lon and neither is missing.
C16_CoordinateCompleteness ==
    /\ \A f \in DOMAIN mgFrames : \A k \in DOMAIN mgFrames[f].rows :
        mgFrames[f].rows[k]["lat"] # NaN /\ mgFrames[f].rows[k]["lon"] # NaN
    /\ {"lat", "lon"} \subseteq mgTable.columns \/ mgTable.rows = <<>>
    /\ \A k \in DOMAIN mgTable.rows :
        /\ {"lat", "lon"} \subseteq DOMAIN mgTable.rows[k]
        /\ mgTable.rows[k]["lat"] \notin NA_VALUES
        /\ mgTable.rows[k]["lon"] \notin NA_VALUES
\* artifacts of both naming schemes with rows that lack a coordinate: the rows
\* with both coordinates are in the table, the others are not
C16_IncompleteRowsDropped ==
    /\ mgPc = "done"
    /\ mgPicked[3] = CanonHoles /\ mgPicked[4] = VenueHoles
    /\ mgStats["visit Berlin"] = 2 /\ mgStats["Resident Advisor"] = 1
    /\ Len(mgTable.rows) < RawRowCount(mgPicked)

\* the indices in CSV_SOURCES of the sources among the first n whose artifact
\* could be loaded, in order: the f-th frame is the f-th of them
RECURSIVE LoadedIdx(_)
LoadedIdx(n) ==
    IF n = 0 THEN <<>>
    ELSE LoadedIdx(n - 1) \o (IF Unloadable(mgPicked[n]) THEN <<>> ELSE <<n>>)
\* the row carries the name, color and icon of the source
TaggedAs(row, source) ==
    /\ row["source"] = source.name
    /\ row["color"] = source.color
    /\ row["icon"] = source.icon

\* C17: every row of every frame, and of the merged table, carries the name, the
\* color and the icon of the source whose artifact it was read from, and its other
\* cells are those of a row of that artifact.
C17_SourceTagging ==
    LET loaded == LoadedIdx(Len(mgPicked))
    IN /\ Len(mgFrames) = Len(loaded)
       /\ \A f \in DOMAIN mgFrames : \A k \in DOMAIN mgFrames[f].rows :
            /\ TaggedAs(mgFrames[f].rows[k], CSV_SOURCES[loaded[f]])
            /\ \A c \in OwnColumns(mgPicked[loaded[f]]) :
                mgFrames[f].rows[k][c]
                    = ReadCell(WithCoordinates(mgPicked[loaded[f]])[k][c])
       /\ mgPc = "done" =>
            /\ Len(mgTable.rows) = Len(AllRows(mgFrames))
            /\ \A k \in DOMAIN mgTable.rows :
                /\ mgTable.rows[k]["source"] = AllRows(mgFrames)[k]["source"]
                /\ mgTable.rows[k]["color"] = AllRows(mgFrames)[k]["color"]
                /\ mgTable.rows[k]["icon"] = AllRows(mgFrames)[k]["icon"]
\* the visit Berlin artifact came with a source column of its own: its rows are
\* in the table under the configured name, color and icon
C17_OwnSourceColumnOverwritten ==
    /\ mgPc = "done" /\ mgPicked[3] = CanonHoles /\ mgPicked[1] = CanonFull
    /\ Len(RowsOf("visit Berlin")) = 2 /\ Len(RowsOf("tip Berlin")) = 2
    /\ RowsOf("x") = <<>>
    /\ \A k \in DOMAIN mgTable.rows :
        \E i \in DOMAIN CSV_SOURCES : TaggedAs(mgTable.rows[k], CSV_SOURCES[i])

\* the sum of the counts of the sources in S
RECURSIVE SumStats(_)
SumStats(S) ==
    IF S = {} THEN 0
    ELSE LET s == CHOOSE x \in S : TRUE IN mgStats[s] + SumStats(S \ {s})

\* C18: in the pair load_csv_sources returns, the count of every source in the
\* statistics is the number of rows of the table tagged with it, every tag in the
\* table has a count, and the counts add up to the number of rows.
C18_StatsAgreeWithTable ==
    mgPc = "done" =>
        /\ \A s \in DOMAIN mgStats : mgStats[s] = Len(RowsOf(s))
        /\ \A k \in DOMAIN mgTable.rows : mgTable.rows[k]["source"] \in DOMAIN mgStats
        /\ SumStats(DOMAIN mgStats) = Len(mgTable.rows)
\* three sources loaded, one of them with no row left: counts 2, 0 and 1
C18_CountsOfThreeSources ==
    /\ mgPc = "done"
    /\ DOMAIN mgStats = {"tip Berlin", "Gratis in Berlin", "Resident Advisor"}
    /\ mgStats["tip Berlin"] = 2 /\ mgStats["Gratis in Berlin"] = 0
    /\ mgStats["Resident Advisor"] = 1
    /\ Len(mgTable.rows) = 3

\* C19: at every moment of scrape_events at most MAX_WORKERS detail fetches are in
\* progress, however many events the listing page has.
C19_BoundedConcurrency ==
    /\ Cardinality(gbRunning) <= MAX_WORKERS
    /\ gbRunning \subseteq 1..Len(gbUrls)
\* all workers are busy and a submitted fetch waits for one of them
C19_PoolSaturated ==
    /\ gbPc = "pool" /\ Len(gbUrls) > MAX_WORKERS
    /\ Cardinality(gbRunning) = MAX_WORKERS
    /\ gbNext <= Len(gbUrls)

\* C20: in run_gratis_berlin_scraper a step that calls the external geocoder is
\* taken only after every detail fetch has completed, and makes one call; while
\* the geocoding loop runs no fetch is in progress.
C20_GeocodingSequential ==
    [][ /\ (prog = "gratis" /\ gbPc = "geocode") =>
            (gbRunning = {} /\ DOMAIN gbOutcome = 1..Len(gbUrls))
        /\ (prog = "gratis" /\ geoCalls' # geoCalls) =>
            /\ gbPc = "geocode" /\ gbRunning = {} /\ gbNext > Len(gbUrls)
            /\ DOMAIN gbOutcome = 1..Len(gbUrls)
            /\ Len(geoTrace') = 1
            /\ SumCalls(geoCalls', DOMAIN geoCalls') = TotalCalls + 1
            /\ Len(gbCoords') = Len(gbCoords) + 1 ]_vars
\* three detail fetches have completed, two addresses were geocoded one by one
C20_TwoGeocodedAfterPool ==
    /\ prog = "gratis" /\ gbPc = "geocode" /\ Len(gbUrls) = 3
    /\ DOMAIN gbOutcome = 1..3 /\ gbRunning = {}
    /\ Len(gbCoords) = 2 /\ TotalCalls = 2

\* C21: in the visit Berlin, Gratis in Berlin and tip Berlin runs every distinct
\* query is sent to the external geocoder at most once.
C21_OneCallPerDistinctQuery ==
    prog \in {"visit", "gratis", "tip"} =>
        \A q \in DOMAIN geoCalls : geoCalls[q] <= 1

\* C22: a failed network fetch (listing page, detail page, API page, browser
\* navigation) never propagates out of an adapter's scrape operation: the Gratis
\* in Berlin run does not end with a failure status and the tip Berlin scrape is
\* never left by an exception.
C22_FetchFailuresStayLocal ==
    /\ prog = "gratis" => gbExit # 1
    /\ prog = "tip" => tbPc # "raised"

\* the text before the leftmost separator of the address, as a query
LeftmostTruncated(address) ==
    LET first == CHOOSE i \in 1..Len(address) :
                     /\ address[i] \in Separators
                     /\ \A j \in 1..(i - 1) : address[j] \notin Separators
    IN Strip(SubSeq(address, 1, first - 1)) \o BerlinGermany

\* C23: after the full-string query found nothing, geocode_address sends at most
\* one more query, the text before the leftmost separator of the address (also
\* when the address holds several different separators), and none at all when the
\* address holds no separator.
C23_TruncatesAtLeftmostSeparator ==
    (prog = "visit" /\ vbCoords # <<>> /\ geoTrace[1].kind = "none") =>
        IF SeparatorsIn(VbLastAddress) = {}
        THEN Len(geoTrace) = 1
        ELSE /\ Len(geoTrace) = 2
             /\ geoTrace[2].query = LeftmostTruncated(VbLastAddress)

\* the pages requested so far that returned records
RecordPages == {k \in DOMAIN raResponses : raResponses[k].kind = "records"}

\* C24: fetch_all_events requests the page numbers 1, 2, 3, ... in order, each once;
\* a page is requested only after the page before it returned records, so that no
\* page follows an empty or failed one; and the list it accumulates is the records
\* of the pages in page order.
C24_PagesInOrder ==
    /\ \A k \in DOMAIN raResponses :
        /\ raResponses[k].page = k
        /\ k > 1 => (raResponses[k - 1].kind = "records" /\ raResponses[k - 1].events # <<>>)
    /\ raAllEvents = PagesRecords(raResponses, Cardinality(RecordPages))
\* pages 1 and 2 returned records and the request for page 3 timed out
C24_TwoPagesThenTimeout ==
    /\ Len(raResponses) = 3 /\ raResponses[3].kind = "timeout" /\ raResponses[3].page = 3
    /\ raResponses[1].events # raResponses[2].events
    /\ raPc = "geocode"
    /\ raAllEvents = raResponses[1].events \o raResponses[2].events

\* the selector list of the handler that ran last
SelectorsOf(handler) == IF handler = "cookie" THEN COOKIE_SELECTORS ELSE CLOSE_SELECTORS
\* the attempts of one handler went down its list in order: the i-th attempt is on
\* the i-th selector
InListOrder(log, selectors) ==
    Len(log) <= Len(selectors) /\ \A i \in DOMAIN log : log[i].selector = selectors[i]
\* the attempts that found their selector visible, and so clicked on it
Clicks(log) == {i \in DOMAIN log : log[i].outcome \in {"clicked", "click_failed"}}
\* the first selector found visible is the last one tried
FirstVisibleWins(log) == \A i \in Clicks(log) : i = Len(log)

\* C25: each overlay handler tries its selectors in list order; the first selector
\* found visible is clicked and no selector after it is tried, so that a handler
\* clicks at most once; and whatever the selectors do, the scrape goes on to the
\* navigation.
C25_FirstVisibleSelectorWins ==
    (prog = "tip" /\ tbOverlays.handler # "none") =>
        /\ tbPc \in {"popup", "navigate", "raised"}
        /\ InListOrder(tbOverlays.log, SelectorsOf(tbOverlays.handler))
        /\ FirstVisibleWins(tbOverlays.log)
        /\ Cardinality(Clicks(tbOverlays.log)) <= 1

\* the fetches as_completed has yielded that were a success
Fetched == {i \in gbYielded : gbResult[i].success}
\* the events of the list that were geocoded to a location
Located == {k \in DOMAIN gbCoords : gbCoords[k].lat # "None" /\ gbCoords[k].lon # "None"}
\* the row of the artifact for the k-th event of the list
RowFor(k) ==
    [title |-> gbEvents[k].title, url |-> gbEvents[k].url, address |-> gbEvents[k].address,
     lat |-> gbCoords[k].lat, lon |-> gbCoords[k].lon]

\* C26: whatever the order in which the detail fetches complete, the list
\* scrape_events builds holds every successfully fetched event exactly once and
\* nothing else; the rows written are exactly the located events, one row each;
\* and the coordinates of a row are the answer to the query for its own address.
C26_OrderIndependent ==
    /\ [](prog = "gratis" =>
            /\ \A i \in Fetched :
                Cardinality({k \in DOMAIN gbEvents : gbEvents[k] = gbResult[i]}) = 1
            /\ \A k \in DOMAIN gbEvents : \E i \in Fetched : gbEvents[k] = gbResult[i]
            /\ gbSaved =>
                /\ {gbCsv[r] : r \in DOMAIN gbCsv} = {RowFor(k) : k \in Located}
                /\ Len(gbCsv) = Cardinality(Located))
    /\ [][(prog = "gratis" /\ gbCoords' # gbCoords) =>
            /\ SubSeq(gbCoords', 1, Len(gbCoords)) = gbCoords
            /\ Len(gbCoords') = Len(gbCoords) + 1
            /\ geoTrace'[1].query = gbEvents[Len(gbCoords')].address
            /\ gbCoords'[Len(gbCoords')] = geoResult']_vars
\* two fetches completed in the reverse of the order they were submitted in; both
\* events were located, at different places, and written
C26_ReverseCompletion ==
    /\ prog = "gratis" /\ gbSaved /\ Len(gbEvents) = 2 /\ Len(gbCsv) = 2
    /\ \E i, j \in Fetched : i < j /\ gbEvents[1] = gbResult[j] /\ gbEvents[2] = gbResult[i]
    /\ gbEvents[1].address # gbEvents[2].address
    /\ gbCoords[1] # gbCoords[2]

\* C27: the coordinates on the CSV row of every event are the result _geocode_venue
\* stored for that event's venue name and address, also when the address is
\* absent, empty or null: a venue that was geocoded to a location is never written
\* with empty coordinates.
C27_RowHasCachedCoordinates ==
    (prog = "ra" /\ raSaved) =>
        \A i \in DOMAIN raCsv :
            LET p == VenuePair(raAllEvents[i])
                key == CacheKey(p.name, p.address)
            IN /\ key \in DOMAIN raCache
               /\ raCsv[i].lat = Cell(raCache[key].lat)
               /\ raCsv[i].lon = Cell(raCache[key].lon)

\* the scrape date in the name of a Resident Advisor artifact
ScrapeDate(name) ==
    CASE name = "RA_0_events.csv" -> 0
      [] name = "RA_1_events.csv" -> 1
      [] name = "RA_2_events.csv" -> 2
      [] name = "RA_3_events.csv" -> 3
\* the file of the latest scrape date among files
MostRecent(files) ==
    CHOOSE f \in files : \A g \in files : ScrapeDate(g.name) <= ScrapeDate(f.name)
\* the position of the Resident Advisor source in CSV_SOURCES
RaSourceIdx == CHOOSE i \in DOMAIN CSV_SOURCES : Contains(CSV_SOURCES[i].file_pattern, "*")

\* C28: of the files that match RA_*_events.csv, load_csv_sources reads the one of
\* the latest scrape date; it takes it from the run folder when the run folder has
\* a match, and from the current directory otherwise.
C28_MostRecentRaFile ==
    (prog = "merge" /\ mgIdx > RaSourceIdx) =>
        IF mgRaRun # {} THEN mgPicked[RaSourceIdx] = MostRecent(mgRaRun).art
        ELSE IF mgRaCwd # {} THEN mgPicked[RaSourceIdx] = MostRecent(mgRaCwd).art
        ELSE mgPicked[RaSourceIdx] = Missing

\* the name RA_run_today.py gives its artifact on the day of this run; a file of
\* the current directory with another scrape date was left there by an earlier run
RunArtifactName == "RA_3_events.csv"
\* the Resident Advisor artifacts this run could have written: the files of its own
\* run folder, which main creates empty, and the file of today's date
OwnRaFiles == mgRaRun \cup {f \in mgRaCwd : f.name = RunArtifactName}

\* C29: the merge of a run reads only artifacts written by that run: what it reads
\* for Resident Advisor is a file of the run folder or today's file, never a file
\* an earlier run left in the current directory.
C29_OnlyOwnArtifacts ==
    (prog = "merge" /\ mgIdx > RaSourceIdx) =>
        mgPicked[RaSourceIdx] \in {Missing} \cup {f.art : f \in OwnRaFiles}

\* the names of the scrapers the loop of run_scrapers has passed
Passed == {SCRAPERS[i].name : i \in 1..(mnIdx - 1)}
\* no scraper was run twice
RanOnce == \A i, j \in DOMAIN mnRan : i # j => mnRan[i] # mnRan[j]
\* every scraper the loop has passed is in one of the two lists, and in one only,
\* whatever became of the scrapers before it
EachClassified ==
    /\ mnSuccessful \cap mnFailed = {}
    /\ mnSuccessful \cup mnFailed = Passed
    /\ mnSuccessful \subseteq {mnRan[i] : i \in DOMAIN mnRan}
    /\ {mnRan[i] : i \in DOMAIN mnRan} \subseteq Passed

=============================================================================
